---- MODULE Spec2Model ----
(***************************************************************************)
(* Model of web-app/main.py: the /search_genappbuilder route handler and   *)
(* the application-wide error handler of the Flask web server.             *)
(*                                                                         *)
(* A text is a sequence of tokens (characters for form input, whole        *)
(* phrases for fixed messages); the empty text is << >>.                   *)
(***************************************************************************)
EXTENDS Integers, Sequences, FiniteSets, TLC

\* Number of request slots the server works on at the same time.
NumReq == 2
\* Number of entries of CUSTOM_UI_DATASTORE_IDS.
NumEngines == 2

Reqs == 1..NumReq

-----------------------------------------------------------------------------
(* Form fields: a field is absent or carries a text.                       *)

Absent == [present |-> FALSE, value |-> << >>]
Field(t) == [present |-> TRUE, value |-> t]

\* Python's None and a str value, for Optional[str].
None == [isNone |-> TRUE, value |-> << >>]
Str(t) == [isNone |-> FALSE, value |-> t]

\* request.form.get(key, default)
FormGet(f, key, default) == IF f[key].present THEN f[key].value ELSE default

\* request.form.get(key): None when the key is missing
FormGetOpt(f, key) == IF f[key].present THEN Str(f[key].value) ELSE None

\* truth value of a str: the empty string is falsy
Truthy(s) == s # << >>

-----------------------------------------------------------------------------
(* int(str) of Python, base 10.                                            *)

Digits == <<"0", "1", "2", "3", "4", "5", "6", "7", "8", "9">>

IsDigit(ch) == \E i \in 1..10 : Digits[i] = ch

DigitVal(ch) == (CHOOSE i \in 1..10 : Digits[i] = ch) - 1

IsSpace(ch) == ch \in {" ", "\t", "\n"}

RECURSIVE LStrip(_)
LStrip(s) == IF s # << >> /\ IsSpace(Head(s)) THEN LStrip(Tail(s)) ELSE s

RECURSIVE RStrip(_)
RStrip(s) ==
    IF s # << >> /\ IsSpace(s[Len(s)]) THEN RStrip(SubSeq(s, 1, Len(s) - 1)) ELSE s

Strip(s) == RStrip(LStrip(s))

\* digits, with single underscores allowed between two digits
WellFormedDigits(b) ==
    /\ b # << >>
    /\ IsDigit(b[1])
    /\ IsDigit(b[Len(b)])
    /\ \A i \in 1..Len(b) : IsDigit(b[i]) \/ b[i] = "_"
    /\ \A i \in 1..(Len(b) - 1) : ~(b[i] = "_" /\ b[i + 1] = "_")

RECURSIVE DigitsValue(_, _)
DigitsValue(b, acc) ==
    IF b = << >> THEN acc
    ELSE IF Head(b) = "_" THEN DigitsValue(Tail(b), acc)
    ELSE DigitsValue(Tail(b), 10 * acc + DigitVal(Head(b)))

\* [ok |-> TRUE, val |-> n], or [ok |-> FALSE, val |-> 0] for ValueError
PyInt(s) ==
    LET t == Strip(s)
        signed == t # << >> /\ Head(t) \in {"+", "-"}
        body == IF signed THEN Tail(t) ELSE t
    IN  IF WellFormedDigits(body)
        THEN [ok |-> TRUE,
              val |-> IF signed /\ Head(t) = "-"
                      THEN 0 - DigitsValue(body, 0)
                      ELSE DigitsValue(body, 0)]
        ELSE [ok |-> FALSE, val |-> 0]

\* list[i] of Python: a negative index counts from the end
PyIndexOk(list, i) == i >= 0 - Len(list) /\ i < Len(list)

PyIndex(list, i) == IF i >= 0 THEN list[i + 1] ELSE list[Len(list) + i + 1]

-----------------------------------------------------------------------------
(* Process-wide configuration (imported from consts).                      *)

PROJECT_ID == "project"
LOCATION == "global"

CUSTOM_UI_DATASTORE_IDS ==
    [i \in 1..NumEngines |-> [name |-> <<"engine", i>>, engine_id |-> 100 + i]]

Globals ==
    [project_id |-> PROJECT_ID, location |-> LOCATION,
     datastore_ids |-> CUSTOM_UI_DATASTORE_IDS]

\* variant: a handler that reorders the directory it has just used
GlobalsAfterRequest_Rotate(c) ==
    [c EXCEPT !.datastore_ids =
        IF @ = << >> THEN @ ELSE Tail(@) \o <<Head(@)>>]

\* The request handlers assign to no module-level name.
GlobalsAfterRequest(c) == c

-----------------------------------------------------------------------------
(* Faults.  isHTTP: isinstance(ex, HTTPException); isQuota: isinstance(ex,  *)
(* ResourceExhausted); description: ex.get_description(); message:         *)
(* ex.message; str: str(ex).                                               *)

Fault(http, quota, d, m, s) ==
    [isHTTP |-> http, isQuota |-> quota, description |-> d, message |-> m, str |-> s]

\* raised by int(search_engine)
ValueError(s) ==
    Fault(FALSE, FALSE, << >>, << >>,
          <<"invalid literal for int() with base 10: '">> \o s \o <<"'">>)

\* raised by CUSTOM_UI_DATASTORE_IDS[...]
IndexError == Fault(FALSE, FALSE, << >>, << >>, <<"list index out of range">>)

-----------------------------------------------------------------------------
(* render_template("search.html", ...): the context handed to the template *)

RenderFailure(message_error) ==
    [kind |-> "Failure", message_error |-> message_error]

\* variant: the two diagnostic payloads passed under each other's name
RenderSuccess_Swapped(search_query, ret) ==
    [kind |-> "Success",
     message_success |-> search_query,
     results |-> ret.results,
     summary |-> ret.summary,
     request_url |-> ret.request_url,
     raw_request |-> ret.raw_response,
     raw_response |-> ret.raw_request]

RenderSuccess(search_query, ret) ==
    [kind |-> "Success",
     message_success |-> search_query,
     results |-> ret.results,
     summary |-> ret.summary,
     request_url |-> ret.request_url,
     raw_request |-> ret.raw_request,
     raw_response |-> ret.raw_response]

-----------------------------------------------------------------------------
(* search_genappbuilder up to the outbound call: it returns a rendered     *)
(* page, raises, or calls search_enterprise_search.  Dispatch is the       *)
(* evaluation of the call's arguments, which raises or reaches the call.   *)

Returns(page) == [kind |-> "return", outcome |-> page]
Raises(ex) == [kind |-> "raise", fault |-> ex]
Calls(args) == [kind |-> "call", args |-> args]

Dispatch(f, c) ==
    LET search_query == FormGet(f, "search_query", << >>)
        search_engine == FormGet(f, "search_engine", << >>)
        n == PyInt(search_engine)
    IN  IF ~n.ok
        THEN Raises(ValueError(search_engine))
        ELSE IF ~PyIndexOk(c.datastore_ids, n.val)
        THEN Raises(IndexError)
        ELSE Calls([project_id |-> c.project_id,
                    location |-> c.location,
                    engine_id |-> PyIndex(c.datastore_ids, n.val).engine_id,
                    search_query |-> search_query,
                    summary_model |-> FormGetOpt(f, "summary_model"),
                    summary_preamble |-> FormGetOpt(f, "summary_preamble")])

\* variant: the engine check placed before the query check
search_genappbuilder_EngineFirst(f, c) ==
    IF ~Truthy(FormGet(f, "search_engine", << >>))
    THEN Returns(RenderFailure(<<"No search engine selected">>))
    ELSE IF ~Truthy(FormGet(f, "search_query", << >>))
    THEN Returns(RenderFailure(<<"No query provided">>))
    ELSE Dispatch(f, c)

\* variant: the engine check left out
search_genappbuilder_NoEngineCheck(f, c) ==
    IF ~Truthy(FormGet(f, "search_query", << >>))
    THEN Returns(RenderFailure(<<"No query provided">>))
    ELSE Dispatch(f, c)

search_genappbuilder(f, c) ==
    LET search_query == FormGet(f, "search_query", << >>)
        search_engine == FormGet(f, "search_engine", << >>)
    IN  IF ~Truthy(search_query)
        THEN Returns(RenderFailure(<<"No query provided">>))
        ELSE IF ~Truthy(search_engine)
        THEN Returns(RenderFailure(<<"No search engine selected">>))
        ELSE Dispatch(f, c)

\* variant: a handler registered for HTTPException only
ErrorHandlerMatches_HttpOnly(ex) == ex.isHTTP

\* @app.errorhandler(Exception): registered for every Exception
ErrorHandlerMatches(ex) == TRUE

\* variant: the ResourceExhausted check placed before the HTTPException check
handle_exception_QuotaFirst(ex) ==
    RenderFailure(IF ex.isQuota THEN ex.message
                  ELSE IF ex.isHTTP THEN ex.description
                  ELSE ex.str)

\* variant: the ResourceExhausted branch left out
handle_exception_NoQuotaBranch(ex) ==
    RenderFailure(IF ex.isHTTP THEN ex.description ELSE ex.str)

handle_exception(ex) ==
    LET initial == <<"An Unknown Error Occurred">>
        \* every branch of the if/elif/else assigns message_error again
        message_error ==
            IF ex.isHTTP THEN ex.description
            ELSE IF ex.isQuota THEN ex.message
            ELSE ex.str
    IN  RenderFailure(message_error)

-----------------------------------------------------------------------------
(* search_enterprise_search (genappbuilder_utils): returns five values or  *)
(* raises.  It is deterministic: what it does is a function of its         *)
(* arguments, one function of a family indexed by ext.                     *)

HttpFault ==
    Fault(TRUE, FALSE, <<"<p>Bad Gateway</p>">>, << >>, <<"502 Bad Gateway">>)

QuotaFault ==
    Fault(FALSE, TRUE, << >>, <<"Quota exceeded">>, <<"429 Quota exceeded">>)

PlainFault == Fault(FALSE, FALSE, << >>, << >>, <<"connection reset">>)

\* an exception constructed without arguments: str(ex) is empty
EmptyFault == Fault(FALSE, FALSE, << >>, << >>, << >>)

\* HTTPException (werkzeug), ResourceExhausted (google.api_core) and the
\* built-in exceptions are separate class families: what the capability
\* raises belongs to one of them.
ExtFaults == <<HttpFault, QuotaFault, PlainFault, EmptyFault>>

NumBehaviours == Len(ExtFaults) + 1

ReturnValues(args) ==
    [results |-> [part |-> "results", of |-> args],
     summary |-> [part |-> "summary", of |-> args],
     request_url |-> [part |-> "request_url", of |-> args],
     raw_request |-> [part |-> "raw_request", of |-> args],
     raw_response |-> [part |-> "raw_response", of |-> args]]

ArgsIndex(args) ==
    args.engine_id + Len(args.search_query)
        + (IF args.summary_model.isNone THEN 0 ELSE 1)

\* 0: normal return; i > 0: raises ExtFaults[i]
ExtBehaviour(k, args) == (ArgsIndex(args) + k) % NumBehaviours

-----------------------------------------------------------------------------
(* Form submissions.                                                       *)

Queries == {Absent, Field(<< >>), Field(<<" ", "q">>)}

Selectors ==
    {Absent, Field(<< >>),
     Field(<<"0">>), Field(<<"1">>), Field(<<"2">>), Field(<<"9">>),
     Field(<<"-", "1">>), Field(<<"-", "3">>), Field(<<"-", "9">>),
     Field(<<"a">>), Field(<<" ", "1">>), Field(<<"+", "1">>), Field(<<"1", "_">>)}

Form(q, e, m, p) ==
    [search_query |-> q, search_engine |-> e, summary_model |-> m,
     summary_preamble |-> p]

Forms ==
    {Form(Field(<<" ", "q">>), e, Absent, Absent) : e \in Selectors}
        \cup {Form(q, e, Absent, Absent) :
                 q \in Queries, e \in {Absent, Field(<< >>), Field(<<"0">>)}}
        \cup {Form(Field(<<" ", "q">>), Field(<<"0">>), Field(<< >>), p) :
                 p \in {Absent, Field(<<"p">>)}}

NoForm == Form(Absent, Absent, Absent, Absent)
NoOutcome == [kind |-> "none"]
NoArgs == [engine_id |-> 0]

-----------------------------------------------------------------------------
(* The server.                                                             *)

VARIABLES
    cfg,          \* the module-level configuration
    ext,          \* which deterministic search capability the server talks to
    pc,           \* per request: "idle", "calling", "done", "escaped"
    form,         \* per request: the submitted form
    outcome,      \* per request: the rendered page, or the fault that escaped
    invocations,  \* per request: calls of search_enterprise_search so far
    callArgs,     \* per request: arguments of the last such call
    raised        \* per request: << >>, or <<ex>> for the fault ex it raised

vars == <<cfg, ext, pc, form, outcome, invocations, callArgs, raised>>

Init ==
    /\ cfg = Globals
    /\ ext \in 0..(NumBehaviours - 1)
    /\ pc = [r \in Reqs |-> "idle"]
    /\ form = [r \in Reqs |-> NoForm]
    /\ outcome = [r \in Reqs |-> NoOutcome]
    /\ invocations = [r \in Reqs |-> 0]
    /\ callArgs = [r \in Reqs |-> NoArgs]
    /\ raised = [r \in Reqs |-> << >>]

\* variant: a fault of the outbound call makes the handler call once more
OnFault_Retry(r, ex) ==
    /\ raised' = [raised EXCEPT ![r] = <<ex>>]
    /\ IF invocations[r] = 1
       THEN /\ pc' = [pc EXCEPT ![r] = "calling"]
            /\ invocations' = [invocations EXCEPT ![r] = 2]
            /\ UNCHANGED <<outcome, callArgs>>
       ELSE /\ pc' = [pc EXCEPT ![r] = "done"]
            /\ outcome' = [outcome EXCEPT ![r] = handle_exception(ex)]
            /\ UNCHANGED <<invocations, callArgs>>

\* Flask's dispatch of an exception raised by the view function
OnFault(r, ex) ==
    /\ raised' = [raised EXCEPT ![r] = <<ex>>]
    /\ UNCHANGED <<invocations, callArgs>>
    /\ IF ErrorHandlerMatches(ex)
       THEN /\ pc' = [pc EXCEPT ![r] = "done"]
            /\ outcome' = [outcome EXCEPT ![r] = handle_exception(ex)]
       ELSE /\ pc' = [pc EXCEPT ![r] = "escaped"]
            /\ outcome' = [outcome EXCEPT ![r] = [kind |-> "fault", fault |-> ex]]

\* POST /search_genappbuilder, up to the handler's return, raise or outbound call
Post(r, f) ==
    /\ pc[r] = "idle"
    /\ form' = [form EXCEPT ![r] = f]
    /\ cfg' = GlobalsAfterRequest(cfg)
    /\ LET step == search_genappbuilder(f, cfg)
       IN  CASE step.kind = "return" ->
                    /\ pc' = [pc EXCEPT ![r] = "done"]
                    /\ outcome' = [outcome EXCEPT ![r] = step.outcome]
                    /\ UNCHANGED <<invocations, callArgs, raised>>
             [] step.kind = "raise" ->
                    OnFault(r, step.fault)
             [] step.kind = "call" ->
                    /\ pc' = [pc EXCEPT ![r] = "calling"]
                    /\ outcome' = [outcome EXCEPT ![r] = NoOutcome]
                    /\ invocations' = [invocations EXCEPT ![r] = 1]
                    /\ callArgs' = [callArgs EXCEPT ![r] = step.args]
                    /\ UNCHANGED raised
    /\ UNCHANGED ext

\* search_enterprise_search returns and the handler renders the results
ExtReturns(r) ==
    /\ pc[r] = "calling"
    /\ ExtBehaviour(ext, callArgs[r]) = 0
    /\ pc' = [pc EXCEPT ![r] = "done"]
    /\ outcome' = [outcome EXCEPT ![r] =
            RenderSuccess(FormGet(form[r], "search_query", << >>),
                          ReturnValues(callArgs[r]))]
    /\ UNCHANGED <<cfg, ext, form, invocations, callArgs, raised>>

\* search_enterprise_search raises and the fault leaves the handler
ExtRaises(r) ==
    /\ pc[r] = "calling"
    /\ ExtBehaviour(ext, callArgs[r]) > 0
    /\ OnFault(r, ExtFaults[ExtBehaviour(ext, callArgs[r])])
    /\ UNCHANGED <<cfg, ext, form>>

\* the response is sent and the request is discarded
Respond(r) ==
    /\ pc[r] = "done"
    /\ pc' = [pc EXCEPT ![r] = "idle"]
    /\ form' = [form EXCEPT ![r] = NoForm]
    /\ outcome' = [outcome EXCEPT ![r] = NoOutcome]
    /\ invocations' = [invocations EXCEPT ![r] = 0]
    /\ callArgs' = [callArgs EXCEPT ![r] = NoArgs]
    /\ raised' = [raised EXCEPT ![r] = << >>]
    /\ UNCHANGED <<cfg, ext>>

Next ==
    \/ \E r \in Reqs, f \in Forms : Post(r, f)
    \/ \E r \in Reqs : ExtReturns(r)
    \/ \E r \in Reqs : ExtRaises(r)
    \/ \E r \in Reqs : Respond(r)

Spec == Init /\ [][Next]_vars

\* the search capability answers every call, by a return or by a fault
FairSpec ==
    Spec /\ \A r \in Reqs : WF_vars(ExtReturns(r)) /\ WF_vars(ExtRaises(r))

(* The error handler alone: it is registered for the whole application, so  *)
(* a fault of any shape, raised while any request is served, reaches it.   *)

FaultTexts(t) == {<< >>, <<t>>}

AnyFault ==
    {Fault(h, q, d, m, t) :
        h \in BOOLEAN, q \in BOOLEAN, d \in FaultTexts("<p>description</p>"),
        m \in FaultTexts("message"), t \in FaultTexts("str")}

Throw(r, ex) ==
    /\ pc[r] = "idle"
    /\ OnFault(r, ex)
    /\ UNCHANGED <<cfg, ext, form>>

HandlerNext ==
    \/ \E r \in Reqs, ex \in AnyFault : Throw(r, ex)
    \/ \E r \in Reqs : Respond(r)

HandlerSpec == Init /\ [][HandlerNext]_vars

TypeOK ==
    /\ ext \in 0..(NumBehaviours - 1)
    /\ pc \in [Reqs -> {"idle", "calling", "done", "escaped"}]
    /\ form \in [Reqs -> Forms \cup {NoForm}]
    /\ invocations \in [Reqs -> Nat]

-----------------------------------------------------------------------------
(* Properties.                                                             *)

Query(r) == FormGet(form[r], "search_query", << >>)
Selector(r) == FormGet(form[r], "search_engine", << >>)

InFlight(r) == pc[r] # "idle"

\* the selector is a number that is a zero-based index of the directory
ZeroBasedIndex(s) ==
    PyInt(s).ok /\ PyInt(s).val \in 0..(Len(cfg.datastore_ids) - 1)

\* C1: a submission whose search_query is absent or empty, whatever its
\* search_engine, ends in the failure page "No query provided" and
\* search_enterprise_search is never called; the query check comes first.
C1_NoQueryProvided ==
    \A r \in Reqs :
        (InFlight(r) /\ ~Truthy(Query(r))) =>
            /\ pc[r] = "done"
            /\ outcome[r] = RenderFailure(<<"No query provided">>)
            /\ invocations[r] = 0

C1_Witness ==
    \E r \in Reqs :
        /\ pc[r] = "done"
        /\ ~form[r].search_query.present
        /\ ~form[r].search_engine.present
        /\ outcome[r].kind = "Failure"

\* C2: a submission with a non-empty search_query and an absent or empty
\* search_engine ends in the failure page "No search engine selected" and
\* search_enterprise_search is never called.
C2_NoEngineSelected ==
    \A r \in Reqs :
        (InFlight(r) /\ Truthy(Query(r)) /\ ~Truthy(Selector(r))) =>
            /\ pc[r] = "done"
            /\ outcome[r] = RenderFailure(<<"No search engine selected">>)
            /\ invocations[r] = 0

C2_Witness ==
    \E r \in Reqs :
        /\ pc[r] = "done"
        /\ Truthy(Query(r))
        /\ form[r].search_engine.present
        /\ form[r].search_engine.value = << >>
        /\ outcome[r].kind = "Failure"

\* C3: with a non-empty search_query, a selector that is not a number or
\* that denotes an index outside 0..len(directory)-1 (negative ones
\* included) ends in a failure page with a non-empty message_error and
\* search_enterprise_search is never called.
C3_BadSelectorFails ==
    \A r \in Reqs :
        (InFlight(r) /\ Truthy(Query(r)) /\ Truthy(Selector(r))
            /\ ~ZeroBasedIndex(Selector(r))) =>
            /\ pc[r] = "done"
            /\ outcome[r].kind = "Failure"
            /\ outcome[r].message_error # << >>
            /\ invocations[r] = 0

\* C4: a fault raised by search_enterprise_search that is neither an
\* HTTPException nor a ResourceExhausted and whose str() is empty ends in a
\* failure page whose message_error is "An Unknown Error Occurred".
C4_UnknownErrorFallback ==
    \A r \in Reqs :
        (pc[r] = "done" /\ invocations[r] = 1 /\ raised[r] # << >>
            /\ ~raised[r][1].isHTTP /\ ~raised[r][1].isQuota
            /\ raised[r][1].str = << >>) =>
            outcome[r] = RenderFailure(<<"An Unknown Error Occurred">>)

\* C5: with a non-empty search_query and a selector that is a valid index,
\* when search_enterprise_search has returned it was called exactly once,
\* with the engine_id at that index of the directory and the submitted
\* query text, and its five return values are the same-named fields of the
\* success page.
C5_SuccessMapsOneToOne ==
    \A r \in Reqs :
        (pc[r] = "done" /\ Truthy(Query(r)) /\ ZeroBasedIndex(Selector(r))
            /\ raised[r] = << >>) =>
            /\ invocations[r] = 1
            /\ callArgs[r].engine_id =
                   cfg.datastore_ids[PyInt(Selector(r)).val + 1].engine_id
            /\ callArgs[r].search_query = form[r].search_query.value
            /\ outcome[r].kind = "Success"
            /\ outcome[r].results.part = "results"
            /\ outcome[r].summary.part = "summary"
            /\ outcome[r].request_url.part = "request_url"
            /\ outcome[r].raw_request.part = "raw_request"
            /\ outcome[r].raw_response.part = "raw_response"
            /\ \A k \in {"results", "summary", "request_url", "raw_request",
                         "raw_response"} :
                   outcome[r][k] = ReturnValues(callArgs[r])[k]

C5_Witness ==
    \E r \in Reqs :
        /\ pc[r] = "done"
        /\ outcome[r].kind = "Success"
        /\ PyInt(Selector(r)).val = 1
        /\ callArgs[r].engine_id = cfg.datastore_ids[2].engine_id

Renderable(page) ==
    \/ page.kind = "Success"
    \/ page.kind = "Failure" /\ "message_error" \in DOMAIN page

\* C6: every request ends with one rendered page, a success page or a
\* failure page carrying message_error: no fault escapes the request, an
\* answered request has such a page, and a request waiting for
\* search_enterprise_search is eventually answered.
C6_AlwaysAnswered ==
    /\ [](\A r \in Reqs :
            /\ pc[r] # "escaped"
            /\ pc[r] = "done" => Renderable(outcome[r])
            /\ outcome[r].kind # "none" => pc[r] = "done")
    /\ \A r \in Reqs : (pc[r] = "calling") ~> (pc[r] = "done")

C6_Witness ==
    \E r, q \in Reqs :
        /\ pc[r] = "done" /\ raised[r] # << >> /\ outcome[r].kind = "Failure"
        /\ pc[q] = "done" /\ outcome[q].kind = "Success"

\* C7: handle_exception picks message_error by the first check that
\* matches: the HTTP description of an HTTPException, else the message of a
\* ResourceExhausted, else str(ex); a fault that is both an HTTPException
\* and a ResourceExhausted is reported by its HTTP description.
C7_FirstMatchWins ==
    \A r \in Reqs :
        (pc[r] = "done" /\ raised[r] # << >>) =>
            LET ex == raised[r][1]
            IN  /\ outcome[r].kind = "Failure"
                /\ ex.isHTTP => outcome[r].message_error = ex.description
                /\ (~ex.isHTTP /\ ex.isQuota) =>
                       outcome[r].message_error = ex.message
                /\ (~ex.isHTTP /\ ~ex.isQuota) =>
                       outcome[r].message_error = ex.str

C7_Witness ==
    \E r \in Reqs :
        /\ pc[r] = "done" /\ raised[r] # << >>
        /\ raised[r][1].isHTTP /\ raised[r][1].isQuota
        /\ raised[r][1].description # raised[r][1].message
        /\ outcome[r].message_error = raised[r][1].description

\* C8: a ResourceExhausted raised by search_enterprise_search ends in a
\* failure page whose message_error is that fault's message.
C8_QuotaMessageVerbatim ==
    \A r \in Reqs :
        (pc[r] = "done" /\ invocations[r] = 1 /\ raised[r] # << >>
            /\ raised[r][1].isQuota) =>
            outcome[r] = RenderFailure(raised[r][1].message)

C8_Witness ==
    \E r \in Reqs :
        /\ pc[r] = "done" /\ invocations[r] = 1
        /\ raised[r] = <<QuotaFault>>
        /\ outcome[r].kind = "Failure"

\* C9: a request calls search_enterprise_search at most once, also when
\* that call raises: a request that raised is answered by a failure page
\* and is not calling again.
C9_NoRetries ==
    \A r \in Reqs :
        /\ invocations[r] <= 1
        /\ raised[r] # << >> => (pc[r] = "done" /\ outcome[r].kind = "Failure")

C9_Witness ==
    \E r \in Reqs :
        pc[r] = "done" /\ invocations[r] = 1 /\ raised[r] # << >>

\* C10: two requests with the same form fields get the same page, whatever
\* other requests ran before or in between, and no request changes the
\* module-level configuration.
C10_Deterministic ==
    /\ cfg = Globals
    /\ \A r, q \in Reqs :
           (pc[r] = "done" /\ pc[q] = "done" /\ form[r] = form[q]) =>
               outcome[r] = outcome[q]

C10_Witness ==
    \E r, q \in Reqs :
        /\ r # q
        /\ pc[r] = "done" /\ pc[q] = "done"
        /\ form[r] = form[q]
        /\ invocations[r] = 1 /\ invocations[q] = 1

====
